---------------------------- MODULE Spec2Model ----------------------------
(***************************************************************************)
(* react-native-atoz-list: the fixed-height windowed list view.            *)
(*                                                                         *)
(*   FixedHeightWindowedListViewDataSource  the geometry index: the        *)
(*       flattened row sequence, the per-section table, the index <->      *)
(*       pixel functions and the window step function computeRowsToRender  *)
(*   FixedHeightWindowedListView            the controller: scroll         *)
(*       handling, the debounced recompute, scrollToSectionBuffered        *)
(*                                                                         *)
(* Specifications:                                                         *)
(*   SpecGeom  a data source is built and one of its functions is called   *)
(*   SpecBuild a data source is built, and built again                     *)
(*   SpecStep  computeRowsToRender is called on bounded options            *)
(*   Spec      the list view: scroll events, timers, frames, jumps and     *)
(*             changes of the data, in any order                           *)
(*   SpecLoop  the recompute loop of the list view at rest                 *)
(*   SpecTeardown  the list view is unmounted with callbacks pending       *)
(*   SpecConfig    the budgets are set at construction and changed later   *)
(*   SpecJump      a letter is touched once or twice from idle             *)
(*   SpecRequests  letters are touched one after the other                 *)
(*   SpecDrain     the same, with the recompute timer running              *)
(*   SpecOrder     the steps of a jump, in the order they take effect      *)
(***************************************************************************)
EXTENDS Integers, Sequences, FiniteSets, TLC

VARIABLES
    dataSource,   \* FixedHeightListViewDataSource._dataSource: the rows
    lookup,       \* FixedHeightListViewDataSource._lookup, in key order
    heights,      \* the constructor's getHeightForSectionHeader / getHeightForCell
    call,         \* the data-source call made last, with its arguments and result
    props,        \* this.props: the budgets (the dataSource prop is the object above)
    platform,     \* Platform.OS
    mounted,      \* the list view is mounted (componentWillUnmount has not run)
    state,        \* this.state: firstRow, lastRow and the buffer window
    scrollOffsetY,             \* this.scrollOffsetY
    height,                    \* this.height
    scrollDirection,           \* this.scrollDirection
    willComputeRowsToRender,   \* this.willComputeRowsToRender, the latch
    timeoutPending,            \* the timer of this.timeoutHandle has yet to fire
    nextSectionToScrollTo,     \* this.nextSectionToScrollTo
    isScrollingToSection,      \* this.isScrollingToSection
    jump,         \* the callback the jump in progress waits for
    retries,      \* animation-frame retries of __computeRowsToRenderSync pending
    viewportY     \* the scroll view's content offset (moved by scrollTo)

geomVars == <<dataSource, lookup, heights>>
ctlVars == <<props, platform, mounted, state, scrollOffsetY, height, scrollDirection,
             willComputeRowsToRender, timeoutPending, nextSectionToScrollTo,
             isScrollingToSection, jump, retries, viewportY>>
vars == <<dataSource, lookup, heights, call, props, platform, mounted, state,
          scrollOffsetY, height, scrollDirection, willComputeRowsToRender,
          timeoutPending, nextSectionToScrollTo, isScrollingToSection, jump,
          retries, viewportY>>

(***************************************************************************)
(* Bounds of the model.                                                    *)
(***************************************************************************)
MaxSections == 2     \* sections of a data blob
MaxCells == 3        \* cells of one section
MaxRows == 5         \* totalRows of a computeRowsToRender call
MaxBudget == 3       \* maxNumToRender of a computeRowsToRender call
MaxPage == 2         \* pageSize of a computeRowsToRender call
MaxRetries == 1      \* pending animation-frame retries of a recompute
MaxDrift == 1        \* rows by which lastRow may fall below the empty window's -1
MaxTicks == 10       \* ticks of one run of the recompute loop
MaxRequests == 3     \* scrollToSection requests of one run

(***************************************************************************)
(* JavaScript values and arithmetic.                                       *)
(***************************************************************************)
Undefined == "undefined"
TypeError == "TypeError"
NaN == "NaN"
NoSection == ""      \* a row without a (truthy) sectionId: a cell
NullSection == "null"      \* nextSectionToScrollTo = null
NoBuffer == [set |-> FALSE]     \* bufferFirstRow = bufferLastRow = null
Buffer(first, last) == [set |-> TRUE, firstRow |-> first, lastRow |-> last]

\* The outcome of a call: a returned number, a returned non-number (undefined,
\* NaN) or a thrown error.
Ok(v) == [ok |-> TRUE, value |-> v]
NotNum(tag) == [ok |-> FALSE, error |-> tag]
Throw(e) == [ok |-> FALSE, error |-> e]

Min2(a, b) == IF a <= b THEN a ELSE b
Max2(a, b) == IF a >= b THEN a ELSE b
Min3(a, b, c) == Min2(a, Min2(b, c))
Max3(a, b, c) == Max2(a, Max2(b, c))

\* Math.floor(a / b) for b > 0 (TLA+'s \div rounds toward minus infinity too).
Floor(a, b) == a \div b

\* a - b on outcomes: NaN as soon as an operand is no number.
Sub(a, b) == IF a.ok /\ b.ok THEN Ok(a.value - b.value) ELSE NotNum(NaN)

(***************************************************************************)
(* The data blob: an ordered mapping sectionId -> list of cell payloads,   *)
(* here a sequence of [sectionId, cells].                                  *)
(***************************************************************************)
SectionNames == <<"A", "B", "C", "D">>

CellsOf(sectionId, n) == [k \in 1..n |-> [sectionId |-> NoSection, cell |-> <<sectionId, k>>]]

\* The blob whose i-th section has counts[i] cells.
BlobOf(counts) ==
    [i \in 1..Len(counts) |->
        [sectionId |-> SectionNames[i], cells |-> CellsOf(SectionNames[i], counts[i])]]

CountSeqs == UNION {[1..n -> 0..MaxCells] : n \in 0..MaxSections}
Blobs == {BlobOf(c) : c \in CountSeqs}

\* Object.keys(dataBlob)
Keys(dataBlob) == [i \in 1..Len(dataBlob) |-> dataBlob[i].sectionId]

\* dataBlob[sectionId] is defined (truthy: a list, even an empty one)
BlobHas(dataBlob, sectionId) ==
    \E i \in 1..Len(dataBlob) : dataBlob[i].sectionId = sectionId

\* dataBlob[sectionId]: the cells
BlobGet(dataBlob, sectionId) ==
    dataBlob[CHOOSE i \in 1..Len(dataBlob) : dataBlob[i].sectionId = sectionId].cells

HeightChoices == {[header |-> 20, cell |-> 50], [header |-> 3, cell |-> 2]}

(***************************************************************************)
(* cloneWithCellsAndSections                                               *)
(***************************************************************************)
RECURSIVE FlattenRows(_, _)
FlattenRows(dataBlob, sectionIds) ==
    IF sectionIds = <<>> THEN <<>>
    ELSE LET sectionId == Head(sectionIds)
             rest == FlattenRows(dataBlob, Tail(sectionIds))
         IN IF BlobHas(dataBlob, sectionId)
            THEN <<[sectionId |-> sectionId, cell |-> <<>>]>>
                     \o BlobGet(dataBlob, sectionId) \o rest
            ELSE rest

RECURSIVE SectionIdsPresent(_, _)
SectionIdsPresent(dataBlob, sectionIds) ==
    IF sectionIds = <<>> THEN <<>>
    ELSE IF BlobHas(dataBlob, Head(sectionIds))
         THEN <<Head(sectionIds)>> \o SectionIdsPresent(dataBlob, Tail(sectionIds))
         ELSE SectionIdsPresent(dataBlob, Tail(sectionIds))

RECURSIVE BuildLookup(_, _, _, _, _)
BuildLookup(present, dataBlob, hts, lastRow, cumulativeHeight) ==
    IF present = <<>> THEN <<>>
    ELSE LET sectionId == Head(present)
             sectionHeaderHeight == hts.header
             cellHeight == hts.cell
             count == Len(BlobGet(dataBlob, sectionId))
             sectionHeight == sectionHeaderHeight + cellHeight * count
             entry == [count |-> count + 1,
                       range |-> <<lastRow + 1, lastRow + 1 + count>>,
                       height |-> sectionHeight,
                       startY |-> cumulativeHeight,
                       endY |-> cumulativeHeight + sectionHeight,
                       cellHeight |-> cellHeight,
                       sectionHeaderHeight |-> sectionHeaderHeight,
                       sectionId |-> sectionId]
         IN <<entry>> \o BuildLookup(Tail(present), dataBlob, hts,
                                     lastRow + 1 + count,
                                     cumulativeHeight + sectionHeight)

\* The keys of a JavaScript object are enumerated (Object.keys, _.forEach,
\* _.find) with the integer-like keys first, in ascending numeric order, and
\* the other keys after them in the order they were added.  KeyIndex is the
\* number of an integer-like section id, -1 for any other id.
LargestIndexKey == 2
KeyIndex(sectionId) ==
    CASE sectionId = "1" -> 1
      [] sectionId = "2" -> 2
      [] OTHER -> -1

\* The place of the k-th entry added in the enumeration of the keys.
KeyRank(entries, k) ==
    IF KeyIndex(entries[k].sectionId) >= 0
    THEN KeyIndex(entries[k].sectionId)
    ELSE LargestIndexKey + k

\* The entries (of distinct section ids, in the order they were added) in the
\* order the object enumerates them.
InKeyOrder(entries) ==
    [n \in 1..Len(entries) |->
        entries[CHOOSE k \in 1..Len(entries) :
                   Cardinality({j \in 1..Len(entries) :
                                   KeyRank(entries, j) < KeyRank(entries, k)}) = n - 1]]

cloneWithCellsAndSections(dataBlob, sectionIds, hts) ==
    [dataSource |-> FlattenRows(dataBlob, sectionIds),
     lookup |-> InKeyOrder(BuildLookup(SectionIdsPresent(dataBlob, sectionIds),
                                       dataBlob, hts, -1, 0))]

(***************************************************************************)
(* The index <-> pixel functions, on a row sequence ds and a table lk.     *)
(***************************************************************************)
getRowCount(ds) == Len(ds)

\* i is an index of this._dataSource (rows are numbered from 0)
HasRow(ds, i) == i \in 0..(Len(ds) - 1)

\* this._dataSource[i], for an index of the array
getRowData(ds, i) == ds[i + 1]

getTotalHeight(lk) == IF Len(lk) > 0 THEN lk[Len(lk)].endY ELSE 0

RECURSIVE HeightBeforeRowFrom(_, _, _)
HeightBeforeRowFrom(lk, k, i) ==
    IF k > Len(lk) THEN 0
    ELSE LET section == lk[k]
             here == IF i > section.range[1] /\ i <= section.range[2]
                     THEN section.sectionHeaderHeight
                              + ((i - 1) - section.range[1]) * section.cellHeight
                     ELSE IF section.range[1] < i THEN section.height ELSE 0
         IN here + HeightBeforeRowFrom(lk, k + 1, i)

\* Mutant: the rows of the section i lies in are counted without the "- 1" that
\* leaves row i itself out.
RECURSIVE HeightBeforeRowInclusiveFrom(_, _, _)
HeightBeforeRowInclusiveFrom(lk, k, i) ==
    IF k > Len(lk) THEN 0
    ELSE LET section == lk[k]
             here == IF i > section.range[1] /\ i <= section.range[2]
                     THEN section.sectionHeaderHeight
                              + (i - section.range[1]) * section.cellHeight
                     ELSE IF section.range[1] < i THEN section.height ELSE 0
         IN here + HeightBeforeRowInclusiveFrom(lk, k + 1, i)

getHeightBeforeRow_Inclusive(lk, i) == HeightBeforeRowInclusiveFrom(lk, 1, i)

getHeightBeforeRow(lk, i) == HeightBeforeRowFrom(lk, 1, i)

hasSection(lk, sectionId) == \E k \in 1..Len(lk) : lk[k].sectionId = sectionId

\* this._lookup[sectionId], for a section of the table
SectionEntry(lk, sectionId) ==
    lk[CHOOSE k \in 1..Len(lk) : lk[k].sectionId = sectionId]

\* for a section of the table; a TypeError (range of undefined) otherwise
getFirstRowOfSection(lk, sectionId) ==
    [row |-> SectionEntry(lk, sectionId).range[1],
     startY |-> SectionEntry(lk, sectionId).startY]

\* _.find(this._lookup, pred), given the places of the entries that satisfy
\* pred: the first of them in key order, 0 when there is none (undefined)
FindSection(matches) ==
    IF matches # {}
    THEN CHOOSE k \in matches : \A j \in matches : k <= j
    ELSE 0

getParentSection(lk, i) ==
    FindSection({k \in 1..Len(lk) : i >= lk[k].range[1] /\ i <= lk[k].range[2]})

getCellHeight(lk, i) ==
    IF getParentSection(lk, i) # 0
    THEN Ok(lk[getParentSection(lk, i)].cellHeight)
    ELSE NotNum(Undefined)

getSectionHeaderHeight(lk, sectionId) ==
    IF hasSection(lk, sectionId)
    THEN Ok(SectionEntry(lk, sectionId).sectionHeaderHeight)
    ELSE Throw(TypeError)

getRowHeight(ds, lk, i) ==
    IF HasRow(ds, i) /\ getRowData(ds, i).sectionId # NoSection
    THEN getSectionHeaderHeight(lk, getRowData(ds, i).sectionId)
    ELSE getCellHeight(lk, i)

\* Mutant: the row found is not offset by the section's first row.
getRowAtHeight_SectionRelative(ds, lk, scrollY) ==
    IF scrollY < 0 THEN Ok(0)
    ELSE IF scrollY > getTotalHeight(lk) THEN Ok(Max2(getRowCount(ds) - 1, 0))
    ELSE LET found == FindSection({k \in 1..Len(lk) :
                                      scrollY >= lk[k].startY /\ scrollY <= lk[k].endY})
         IN IF found = 0 THEN Throw(TypeError)
            ELSE LET parentSection == lk[found]
                     relativeY == scrollY - parentSection.startY
                 IN IF relativeY <= parentSection.sectionHeaderHeight
                    THEN Ok(parentSection.range[1])
                    ELSE Ok(Floor(relativeY - parentSection.sectionHeaderHeight,
                                  parentSection.cellHeight))

\* Mutant: an offset past the content is clamped to the row count, not to the
\* last row.
getRowAtHeight_ClampToCount(ds, lk, scrollY) ==
    IF scrollY < 0 THEN Ok(0)
    ELSE IF scrollY > getTotalHeight(lk) THEN Ok(Max2(getRowCount(ds), 0))
    ELSE LET found == FindSection({k \in 1..Len(lk) :
                                      scrollY >= lk[k].startY /\ scrollY <= lk[k].endY})
         IN IF found = 0 THEN Throw(TypeError)
            ELSE LET parentSection == lk[found]
                     relativeY == scrollY - parentSection.startY
                 IN IF relativeY <= parentSection.sectionHeaderHeight
                    THEN Ok(parentSection.range[1])
                    ELSE Ok(parentSection.range[1]
                              + Floor(relativeY - parentSection.sectionHeaderHeight,
                                      parentSection.cellHeight))

getRowAtHeight(ds, lk, scrollY) ==
    IF scrollY < 0 THEN Ok(0)
    ELSE IF scrollY > getTotalHeight(lk) THEN Ok(Max2(getRowCount(ds) - 1, 0))
    ELSE LET found == FindSection({k \in 1..Len(lk) :
                                      scrollY >= lk[k].startY /\ scrollY <= lk[k].endY})
         IN IF found = 0 THEN Throw(TypeError)
            ELSE LET parentSection == lk[found]
                     relativeY == scrollY - parentSection.startY
                 IN IF relativeY <= parentSection.sectionHeaderHeight
                    THEN Ok(parentSection.range[1])
                    ELSE Ok(parentSection.range[1]
                              + Floor(relativeY - parentSection.sectionHeaderHeight,
                                      parentSection.cellHeight))

getHeightAfterRow(ds, lk, i) ==
    Sub(Sub(Ok(getTotalHeight(lk)), Ok(getHeightBeforeRow(lk, i))),
        getRowHeight(ds, lk, i))

getHeightBetweenRows(lk, i, ii) ==
    getHeightBeforeRow(lk, ii) - getHeightBeforeRow(lk, i + 1)

computeVisibleRows(ds, lk, scrollY, viewportHeight) ==
    LET first == getRowAtHeight(ds, lk, scrollY)
        last == getRowAtHeight(ds, lk, scrollY + viewportHeight)
    IN IF first.ok /\ last.ok
       THEN [ok |-> TRUE, firstVisible |-> first.value, lastVisible |-> last.value + 1]
       ELSE Throw(TypeError)

\* FixedHeightWindowedListView.defaultProps
DefaultBudgets ==
    [maxNumToRender |-> 20, pageSize |-> 5, numToRenderAhead |-> 4,
     numToRenderBehind |-> 2]

(***************************************************************************)
(* computeRowsToRender: one step of the window toward its target.          *)
(* options: scrollDirection, firstVisible, lastVisible, firstRendered,     *)
(* lastRendered, maxNumToRender, pageSize, numToRenderAhead,               *)
(* numToRenderBehind, totalRows; the callers add numRendered and the row   *)
(* computed first.                                                         *)
(***************************************************************************)
\* computeFirstRow bounding firstRow by the row rendered last before the step,
\* not by the lastRow just computed.
computeFirstRow_StaleLastRow(options) ==
    IF options.scrollDirection = "down"
    THEN LET firstRow == Max3(0,
                              options.firstVisible - options.numToRenderBehind,
                              options.lastRendered - options.maxNumToRender)
         IN [firstRow |-> firstRow, targetFirstRow |-> firstRow]
    ELSE LET targetFirstRow ==
                 Max2(0, options.firstVisible - options.numToRenderAhead
                             + options.numToRenderBehind)
             firstRow == Max2(targetFirstRow, options.firstRendered - options.pageSize)
         IN [firstRow |-> firstRow, targetFirstRow |-> targetFirstRow]

\* computeFirstRow with the step of pageSize rows left out of firstRow: scrolling
\* up the window starts at its target at once.
computeFirstRow_WithoutPage(options) ==
    IF options.scrollDirection = "down"
    THEN LET firstRow == Max3(0,
                              options.firstVisible - options.numToRenderBehind,
                              options.lastRow - options.maxNumToRender)
         IN [firstRow |-> firstRow, targetFirstRow |-> firstRow]
    ELSE LET targetFirstRow ==
                 Max2(0, options.firstVisible - options.numToRenderAhead
                             + options.numToRenderBehind)
         IN [firstRow |-> targetFirstRow, targetFirstRow |-> targetFirstRow]

computeFirstRow(options) ==
    IF options.scrollDirection = "down"
    THEN LET firstRow == Max3(0,
                              options.firstVisible - options.numToRenderBehind,
                              options.lastRow - options.maxNumToRender)
         IN [firstRow |-> firstRow, targetFirstRow |-> firstRow]
    ELSE LET targetFirstRow ==
                 Max2(0, options.firstVisible - options.numToRenderAhead
                             + options.numToRenderBehind)
             firstRow == Max2(targetFirstRow, options.firstRendered - options.pageSize)
         IN [firstRow |-> firstRow, targetFirstRow |-> targetFirstRow]

\* computeLastRow with the step of pageSize rows left out of lastRow.
computeLastRow_WithoutPage(options) ==
    IF options.scrollDirection = "down"
    THEN LET targetLastRow ==
                 Min3(options.totalRows - 1,
                      options.lastVisible + options.numToRenderAhead
                          - options.numToRenderBehind,
                      options.firstVisible + options.numRendered
                          + options.numToRenderAhead - options.numToRenderBehind)
             lastRow == Min2(targetLastRow, options.lastRendered)
         IN [lastRow |-> lastRow, targetLastRow |-> targetLastRow]
    ELSE LET numToBeRendered == options.lastRendered - options.firstRow
             lastRow == IF numToBeRendered > options.maxNumToRender
                        THEN options.lastRendered
                                 - (numToBeRendered - options.maxNumToRender)
                        ELSE options.lastRendered
         IN [lastRow |-> lastRow, targetLastRow |-> lastRow]

computeLastRow(options) ==
    IF options.scrollDirection = "down"
    THEN LET targetLastRow ==
                 Min3(options.totalRows - 1,
                      options.lastVisible + options.numToRenderAhead
                          - options.numToRenderBehind,
                      options.firstVisible + options.numRendered
                          + options.numToRenderAhead - options.numToRenderBehind)
             lastRow == Min2(targetLastRow, options.lastRendered + options.pageSize)
         IN [lastRow |-> lastRow, targetLastRow |-> targetLastRow]
    ELSE LET numToBeRendered == options.lastRendered - options.firstRow
             lastRow == IF numToBeRendered > options.maxNumToRender
                        THEN options.lastRendered
                                 - (numToBeRendered - options.maxNumToRender)
                        ELSE options.lastRendered
         IN [lastRow |-> lastRow, targetLastRow |-> lastRow]

\* For numToRenderAhead < maxNumToRender; the invariant() throws otherwise.
computeRowsToRender(options) ==
    LET numRendered == options.lastRendered - options.firstRendered + 1
    IN IF options.scrollDirection = "down"
       THEN LET lastResult == computeLastRow(options @@ [numRendered |-> numRendered])
                firstResult == computeFirstRow(
                    options @@ [lastRow |-> lastResult.lastRow,
                                numRendered |-> numRendered])
            IN [firstRow |-> firstResult.firstRow,
                lastRow |-> lastResult.lastRow,
                targetFirstRow |-> firstResult.targetFirstRow,
                targetLastRow |-> lastResult.targetLastRow]
       ELSE LET firstResult == computeFirstRow(options @@ [numRendered |-> numRendered])
                lastResult == computeLastRow(
                    options @@ [firstRow |-> firstResult.firstRow,
                                numRendered |-> numRendered])
            IN [firstRow |-> firstResult.firstRow,
                lastRow |-> lastResult.lastRow,
                targetFirstRow |-> firstResult.targetFirstRow,
                targetLastRow |-> lastResult.targetLastRow]

computeRowsToRenderThrows(options) ==
    ~(options.numToRenderAhead < options.maxNumToRender)

(***************************************************************************)
(* SpecGeom: a data source is constructed and built from a blob, then one  *)
(* of its functions is called; a rebuild replaces the rows and the table.  *)
(***************************************************************************)
NoCall == [op |-> "none"]

ViewportHeights == {0, 60, 400}

\* The scroll offsets and row indices a caller may pass.
OffsetsOf(lk) == (-1)..(getTotalHeight(lk) + 1)
RowArgsOf(ds) == (-1)..(getRowCount(ds) + 1)

\* No list view is mounted on the data source.
NoListView ==
    /\ props = [initialNumToRender |-> 1] @@ DefaultBudgets
    /\ platform = "ios"
    /\ mounted = FALSE
    /\ state = [firstRow |-> 0, lastRow |-> -1, buffer |-> NoBuffer]
    /\ scrollOffsetY = 0
    /\ height = 0
    /\ scrollDirection = "down"
    /\ willComputeRowsToRender = FALSE
    /\ timeoutPending = FALSE
    /\ nextSectionToScrollTo = NullSection
    /\ isScrollingToSection = FALSE
    /\ jump = "none"
    /\ retries = 0
    /\ viewportY = 0

InitGeom ==
    /\ NoListView
    /\ heights \in HeightChoices
    /\ \E blob \in Blobs :
          LET built == cloneWithCellsAndSections(blob, Keys(blob), heights)
          IN /\ dataSource = built.dataSource
             /\ lookup = built.lookup
    /\ call = NoCall

Rebuild ==
    /\ call = NoCall
    /\ \E blob \in Blobs :
          LET built == cloneWithCellsAndSections(blob, Keys(blob), heights)
          IN /\ dataSource' = built.dataSource
             /\ lookup' = built.lookup
    /\ UNCHANGED <<heights, call>>
    /\ UNCHANGED ctlVars

CallGetRowAtHeight ==
    /\ call = NoCall
    /\ \E y \in OffsetsOf(lookup) :
          call' = [op |-> "getRowAtHeight", y |-> y,
                   result |-> getRowAtHeight(dataSource, lookup, y)]
    /\ UNCHANGED geomVars
    /\ UNCHANGED ctlVars

CallGetHeightBeforeRow ==
    /\ call = NoCall
    /\ \E i \in RowArgsOf(dataSource) :
          call' = [op |-> "getHeightBeforeRow", i |-> i,
                   result |-> Ok(getHeightBeforeRow(lookup, i))]
    /\ UNCHANGED geomVars
    /\ UNCHANGED ctlVars

CallGetHeightAfterRow ==
    /\ call = NoCall
    /\ \E i \in RowArgsOf(dataSource) :
          call' = [op |-> "getHeightAfterRow", i |-> i,
                   result |-> getHeightAfterRow(dataSource, lookup, i)]
    /\ UNCHANGED geomVars
    /\ UNCHANGED ctlVars

\* getRowData(i) for any i: the row, or undefined past the ends of the array.
CallGetRowData ==
    /\ call = NoCall
    /\ \E i \in RowArgsOf(dataSource) :
          call' = [op |-> "getRowData", i |-> i,
                   result |-> IF HasRow(dataSource, i)
                              THEN [ok |-> TRUE, row |-> getRowData(dataSource, i)]
                              ELSE NotNum(Undefined)]
    /\ UNCHANGED geomVars
    /\ UNCHANGED ctlVars

\* getFirstRowOfSection(sectionId) for any sectionId: the row and startY, or
\* the TypeError of reading `range` of undefined.
CallGetFirstRowOfSection ==
    /\ call = NoCall
    /\ \E k \in 1..(MaxSections + 1) :
          call' = [op |-> "getFirstRowOfSection", sectionId |-> SectionNames[k],
                   result |-> IF hasSection(lookup, SectionNames[k])
                              THEN [ok |-> TRUE,
                                    first |-> getFirstRowOfSection(lookup, SectionNames[k])]
                              ELSE Throw(TypeError)]
    /\ UNCHANGED geomVars
    /\ UNCHANGED ctlVars

CallComputeVisibleRows ==
    /\ call = NoCall
    /\ \E y \in OffsetsOf(lookup), h \in ViewportHeights :
          call' = [op |-> "computeVisibleRows", y |-> y, h |-> h,
                   result |-> computeVisibleRows(dataSource, lookup, y, h)]
    /\ UNCHANGED geomVars
    /\ UNCHANGED ctlVars

NextGeom ==
    \/ Rebuild
    \/ CallGetRowAtHeight
    \/ CallGetHeightBeforeRow
    \/ CallGetHeightAfterRow
    \/ CallComputeVisibleRows
    \/ CallGetRowData
    \/ CallGetFirstRowOfSection

SpecGeom == InitGeom /\ [][NextGeom]_vars

(***************************************************************************)
(* SpecBuild: a data source is constructed and cloneWithCellsAndSections   *)
(* is called on a blob with an explicit order of its sections, then once   *)
(* more with the same arguments.  The section ids are letters and          *)
(* integer-like strings; `call` records the arguments and what the first   *)
(* build left.                                                             *)
(***************************************************************************)
\* dataBlob[sectionId] is there (an empty list is truthy).
IsPresent(section) == section.present

\* The section ids of the blobs, in the order Object.keys(dataBlob) gives them.
BuildIds == <<"1", "2", "A", "B">>

\* The blobs: each section id is absent (-1) or has 0..MaxCells cells, and at
\* most MaxSections are present.
BuildBlobs ==
    {SelectSeq([i \in 1..Len(BuildIds) |->
                   [sectionId |-> BuildIds[i], present |-> c[i] >= 0,
                    cells |-> CellsOf(BuildIds[i], Max2(c[i], 0))]],
               IsPresent) :
        c \in {f \in [1..Len(BuildIds) -> (-1)..MaxCells] :
                  Cardinality({i \in 1..Len(BuildIds) : f[i] >= 0}) <= MaxSections}}

\* The orders: sequences of distinct section ids, at most MaxSections of them.
BuildOrders ==
    UNION {{[k \in 1..n |-> BuildIds[f[k]]] :
               f \in {g \in [1..n -> 1..Len(BuildIds)] :
                         \A a, b \in 1..n : a # b => g[a] # g[b]}} :
           n \in 0..MaxSections}

InitBuild ==
    /\ NoListView
    /\ heights \in HeightChoices
    /\ dataSource = <<>>
    /\ lookup = <<>>
    /\ call = NoCall

\* cloneWithCellsAndSections(dataBlob, sectionIds) on the new data source.
Build ==
    /\ call = NoCall
    /\ \E blob \in BuildBlobs, sectionIds \in BuildOrders :
          LET built == cloneWithCellsAndSections(blob, sectionIds, heights)
          IN /\ dataSource' = built.dataSource
             /\ lookup' = built.lookup
             /\ call' = [op |-> "build", dataBlob |-> blob, sectionIds |-> sectionIds,
                         builds |-> 1, dataSource |-> built.dataSource,
                         lookup |-> built.lookup]
    /\ UNCHANGED heights
    /\ UNCHANGED ctlVars

\* cloneWithCellsAndSections once more, with the same arguments.
BuildAgain ==
    /\ call.op = "build"
    /\ call.builds = 1
    /\ LET built == cloneWithCellsAndSections(call.dataBlob, call.sectionIds, heights)
       IN /\ dataSource' = built.dataSource
          /\ lookup' = built.lookup
    /\ call' = [call EXCEPT !.builds = 2]
    /\ UNCHANGED heights
    /\ UNCHANGED ctlVars

NextBuild ==
    \/ Build
    \/ BuildAgain

SpecBuild == InitBuild /\ [][NextBuild]_vars

(***************************************************************************)
(* SpecStep: computeRowsToRender is called on a data source.  The options  *)
(* are every combination within the bounds of a visible range inside the   *)
(* list, a rendered window (empty, inverted and one row past the end       *)
(* included) and budgets with numToRenderAhead, numToRenderBehind <        *)
(* maxNumToRender, and the options of the documented examples.             *)
(***************************************************************************)
Directions == {"down", "up"}

BoundedOptions ==
    UNION {
        [scrollDirection : Directions,
         firstVisible : 0..(t - 1),
         lastVisible : 1..t,
         firstRendered : 0..t,
         lastRendered : (-1)..t,
         maxNumToRender : {m},
         pageSize : 1..MaxPage,
         numToRenderAhead : 0..(m - 1),
         numToRenderBehind : 0..(m - 1),
         totalRows : {t}] : t \in 1..MaxRows, m \in 1..MaxBudget}

ExampleOptions ==
    {DefaultBudgets @@ [scrollDirection |-> d, firstVisible |-> v[1],
                        lastVisible |-> v[2], firstRendered |-> w[1],
                        lastRendered |-> w[2], totalRows |-> 100] :
        d \in Directions,
        v \in {<<8, 10>>, <<0, 10>>, <<50, 60>>, <<0, 30>>},
        w \in {<<0, 10>>, <<0, 1>>, <<6, 12>>, <<40, 60>>, <<0, 17>>}}

StepOptions ==
    {o \in BoundedOptions : o.firstVisible < o.lastVisible} \cup ExampleOptions

InitStep ==
    /\ NoListView
    /\ heights \in {h \in HeightChoices : h.header = 20}
    /\ dataSource = <<>>
    /\ lookup = <<>>
    /\ call = NoCall

CallComputeRowsToRender ==
    /\ call = NoCall
    /\ \E options \in StepOptions :
          /\ ~computeRowsToRenderThrows(options)
          /\ call' = [op |-> "computeRowsToRender", options |-> options,
                      result |-> computeRowsToRender(options)]
    /\ UNCHANGED geomVars
    /\ UNCHANGED ctlVars

NextStep == CallComputeRowsToRender

SpecStep == InitStep /\ [][NextStep]_vars

(***************************************************************************)
(* Spec: FixedHeightWindowedListView, mounted by AtoZList on its data      *)
(* source.  One action per handler or callback; a handler runs to its end  *)
(* before the next one starts (one JavaScript thread).                     *)
(***************************************************************************)
\* The props the list view is mounted with (budgets scaled to the data).
PropsChoices ==
    {[initialNumToRender |-> 1, maxNumToRender |-> 3, pageSize |-> 1,
      numToRenderAhead |-> 1, numToRenderBehind |-> 1]}

\* The data AtoZList is given: none, the example A:[3 cells], B:[2 cells], a
\* longer list, and a list whose last section has no cells.
DataChoices == {BlobOf(<<>>), BlobOf(<<3, 2>>), BlobOf(<<3, 4>>), BlobOf(<<2, 0>>)}

\* contentOffset.y and layoutMeasurement.height of the scroll events.
ScrollOffsets == {0, 250}
LayoutHeight == 60

\* The sections a jump is requested to ("Z" is in no data).
RequestedSections == {"A", "B", "Z"}

Platforms == {"android", "ios"}

\* The constructor's invariant() calls pass.
ConstructorAccepts(p) ==
    /\ p.numToRenderAhead < p.maxNumToRender
    /\ p.numToRenderBehind < p.maxNumToRender

Init ==
    /\ heights = [header |-> 20, cell |-> 50]
    /\ \E blob \in DataChoices :
          LET built == cloneWithCellsAndSections(blob, Keys(blob), heights)
          IN /\ dataSource = built.dataSource
             /\ lookup = built.lookup
    /\ call = NoCall
    /\ props \in {p \in PropsChoices : ConstructorAccepts(p)}
    /\ platform \in Platforms
    /\ mounted = TRUE
    /\ state = [firstRow |-> 0,
                lastRow |-> Min2(getRowCount(dataSource) - 1, props.initialNumToRender),
                buffer |-> NoBuffer]
    /\ scrollOffsetY = 0
    /\ height = 0
    /\ scrollDirection = "down"
    /\ willComputeRowsToRender = FALSE
    /\ timeoutPending = FALSE
    /\ nextSectionToScrollTo = NullSection
    /\ isScrollingToSection = FALSE
    /\ jump = "none"
    /\ retries = 0
    /\ viewportY = 0

\* On iOS __maybeWait calls back at once: between the commit of the buffer
\* window and the replacement of the main window no other handler runs.
BetweenHandlers == ~(platform = "ios" /\ jump = "wait")

\* __enqueueComputeRowsToRender, reached with the latch at `latch` and the timer
\* at `timer`: the timer it leaves (the latch it leaves is set).
EnqueueTimer(latch, timer) == IF ~latch THEN TRUE ELSE timer

\* this.setState(window) of a recompute: React drops the update of a component
\* that is not mounted.
setState(window) == IF mounted THEN window ELSE state

\* __computeRowsToRenderSync without the test of isScrollingToSection.
ComputeRowsToRenderSync_DuringJump(ds, lk, nextProps, forceUpdate, latch, timer, pending) ==
    IF FALSE
    THEN /\ retries' = pending + 1
         /\ state' = state
         /\ willComputeRowsToRender' = latch
         /\ timeoutPending' = timer
    ELSE LET totalRows == getRowCount(ds)
         IN IF totalRows = 0
            THEN /\ state' = setState([state EXCEPT !.firstRow = 0, !.lastRow = -1])
                 /\ willComputeRowsToRender' = latch
                 /\ timeoutPending' = timer
                 /\ retries' = pending
            ELSE IF props.numToRenderAhead = 0
            THEN /\ state' = state
                 /\ willComputeRowsToRender' = latch
                 /\ timeoutPending' = timer
                 /\ retries' = pending
            ELSE LET visible == computeVisibleRows(ds, lk, scrollOffsetY, height)
                 IN IF visible.lastVisible >= totalRows - 1 /\ ~forceUpdate
                    THEN /\ state' = state
                         /\ willComputeRowsToRender' = latch
                         /\ timeoutPending' = timer
                         /\ retries' = pending
                    ELSE LET result == computeRowsToRender(
                                 [scrollDirection |-> scrollDirection,
                                  firstVisible |-> visible.firstVisible,
                                  lastVisible |-> visible.lastVisible,
                                  firstRendered |-> state.firstRow,
                                  lastRendered |-> state.lastRow,
                                  maxNumToRender |-> nextProps.maxNumToRender,
                                  pageSize |-> nextProps.pageSize,
                                  numToRenderAhead |-> nextProps.numToRenderAhead,
                                  numToRenderBehind |-> nextProps.numToRenderBehind,
                                  totalRows |-> totalRows])
                         IN /\ state' = setState(
                                   [state EXCEPT !.firstRow = result.firstRow,
                                                 !.lastRow = result.lastRow])
                            /\ retries' = pending
                            /\ IF result.lastRow # result.targetLastRow
                                      \/ result.firstRow # result.targetFirstRow
                               THEN /\ willComputeRowsToRender' = TRUE
                                    /\ timeoutPending' = EnqueueTimer(latch, timer)
                               ELSE /\ willComputeRowsToRender' = latch
                                    /\ timeoutPending' = timer

\* __computeRowsToRenderSync(nextProps, forceUpdate) on the data source ds, lk,
\* reached with the latch at `latch`, the timer at `timer` and `pending`
\* animation-frame retries still to run.
ComputeRowsToRenderSync(ds, lk, nextProps, forceUpdate, latch, timer, pending) ==
    IF isScrollingToSection
    THEN /\ retries' = pending + 1
         /\ state' = state
         /\ willComputeRowsToRender' = latch
         /\ timeoutPending' = timer
    ELSE LET totalRows == getRowCount(ds)
         IN IF totalRows = 0
            THEN /\ state' = setState([state EXCEPT !.firstRow = 0, !.lastRow = -1])
                 /\ willComputeRowsToRender' = latch
                 /\ timeoutPending' = timer
                 /\ retries' = pending
            ELSE IF props.numToRenderAhead = 0
            THEN /\ state' = state
                 /\ willComputeRowsToRender' = latch
                 /\ timeoutPending' = timer
                 /\ retries' = pending
            ELSE LET visible == computeVisibleRows(ds, lk, scrollOffsetY, height)
                 IN IF visible.lastVisible >= totalRows - 1 /\ ~forceUpdate
                    THEN /\ state' = state
                         /\ willComputeRowsToRender' = latch
                         /\ timeoutPending' = timer
                         /\ retries' = pending
                    ELSE LET result == computeRowsToRender(
                                 [scrollDirection |-> scrollDirection,
                                  firstVisible |-> visible.firstVisible,
                                  lastVisible |-> visible.lastVisible,
                                  firstRendered |-> state.firstRow,
                                  lastRendered |-> state.lastRow,
                                  maxNumToRender |-> nextProps.maxNumToRender,
                                  pageSize |-> nextProps.pageSize,
                                  numToRenderAhead |-> nextProps.numToRenderAhead,
                                  numToRenderBehind |-> nextProps.numToRenderBehind,
                                  totalRows |-> totalRows])
                         IN /\ state' = setState(
                                   [state EXCEPT !.firstRow = result.firstRow,
                                                 !.lastRow = result.lastRow])
                            /\ retries' = pending
                            /\ IF result.lastRow # result.targetLastRow
                                      \/ result.firstRow # result.targetFirstRow
                               THEN /\ willComputeRowsToRender' = TRUE
                                    /\ timeoutPending' = EnqueueTimer(latch, timer)
                               ELSE /\ willComputeRowsToRender' = latch
                                    /\ timeoutPending' = timer

\* The recomputes the model follows: an inverted window fed back into
\* computeRowsToRender can push lastRow down without limit.
WithinDrift(window) == window.lastRow >= -1 - MaxDrift

\* __getScrollDirection
getScrollDirection(offsetY, prevScrollOffsetY) ==
    IF offsetY - prevScrollOffsetY >= 0 THEN "down" ELSE "up"

\* __onScroll: the scroll view reports an offset (one the user scrolled to, or
\* the one scrollTo moved it to).
OnScroll ==
    /\ BetweenHandlers
    /\ \E y \in ScrollOffsets \cup {viewportY} :
          /\ viewportY' = y
          /\ scrollOffsetY' = y
          /\ scrollDirection' = getScrollDirection(y, scrollOffsetY)
    /\ height' = LayoutHeight
    /\ willComputeRowsToRender' = TRUE
    /\ timeoutPending' = EnqueueTimer(willComputeRowsToRender, timeoutPending)
    /\ UNCHANGED <<geomVars, call, props, platform, mounted, state, nextSectionToScrollTo,
                   isScrollingToSection, jump, retries>>

\* The callback of the timer of __enqueueComputeRowsToRender: the latch is
\* cleared and __computeRowsToRenderSync(this.props) runs.
ComputeTimerCallback ==
    /\ BetweenHandlers
    /\ timeoutPending
    /\ isScrollingToSection => retries < MaxRetries
    /\ ComputeRowsToRenderSync(dataSource, lookup, props, FALSE, FALSE, FALSE,
                               retries)
    /\ UNCHANGED <<geomVars, props, platform, mounted, scrollOffsetY, height,
                   scrollDirection, nextSectionToScrollTo, isScrollingToSection,
                   jump, viewportY>>

\* The timer of __enqueueComputeRowsToRender fires.
ComputeTimer ==
    /\ ComputeTimerCallback
    /\ WithinDrift(state')
    /\ UNCHANGED call

\* The animation frame of a recompute that found a jump in progress.
ComputeRetryFrame ==
    /\ BetweenHandlers
    /\ retries > 0
    /\ ComputeRowsToRenderSync(dataSource, lookup, props, FALSE,
                               willComputeRowsToRender, timeoutPending, retries - 1)
    /\ WithinDrift(state')
    /\ UNCHANGED <<geomVars, call, props, platform, mounted, scrollOffsetY, height,
                   scrollDirection, nextSectionToScrollTo, isScrollingToSection,
                   jump, viewportY>>

\* AtoZList.componentWillReceiveProps with new data: the data source is rebuilt
\* in place, and the list view's componentWillReceiveProps forces a recompute.
\* (The same data again is a re-render of the parent.)
ReceiveProps ==
    /\ BetweenHandlers
    /\ isScrollingToSection => retries < MaxRetries
    /\ \E blob \in DataChoices :
          LET built == cloneWithCellsAndSections(blob, Keys(blob), heights)
          IN /\ dataSource' = built.dataSource
             /\ lookup' = built.lookup
             /\ ComputeRowsToRenderSync(built.dataSource, built.lookup, props, TRUE,
                                        willComputeRowsToRender, timeoutPending,
                                        retries)
    /\ WithinDrift(state')
    /\ UNCHANGED <<heights, call, props, platform, mounted, scrollOffsetY, height,
                   scrollDirection, nextSectionToScrollTo, isScrollingToSection,
                   jump, viewportY>>

\* scrollToSectionBuffered with the buffer window always starting at the
\* section's first row.
ScrollToSectionBuffered_NoPullBack(sectionId, scrolling, next, pending) ==
    IF ~scrolling /\ hasSection(lookup, sectionId)
    THEN LET first == getFirstRowOfSection(lookup, sectionId)
             totalRows == getRowCount(dataSource)
             lastRow == totalRows - 1
             windowLastRow == Min2(lastRow, first.row + props.initialNumToRender)
         IN /\ timeoutPending' = FALSE
            /\ willComputeRowsToRender' = FALSE
            /\ isScrollingToSection' = TRUE
            /\ state' = [state EXCEPT !.buffer = Buffer(first.row, windowLastRow)]
            /\ jump' = "wait"
            /\ viewportY' = first.startY
            /\ nextSectionToScrollTo' = next
    ELSE /\ nextSectionToScrollTo' = sectionId
         /\ isScrollingToSection' = scrolling
         /\ jump' = pending
         /\ UNCHANGED <<timeoutPending, willComputeRowsToRender, state, viewportY>>

\* scrollToSectionBuffered clearing the enqueued recompute before its test.
ScrollToSectionBuffered_ClearsFirst(sectionId, scrolling, next, pending) ==
    IF ~scrolling /\ hasSection(lookup, sectionId)
    THEN LET first == getFirstRowOfSection(lookup, sectionId)
             totalRows == getRowCount(dataSource)
             lastRow == totalRows - 1
             windowLastRow == Min2(lastRow, first.row + props.initialNumToRender)
             windowFirstRow ==
                 IF windowLastRow - lastRow = 0
                 THEN Max2(0, windowLastRow - props.initialNumToRender)
                 ELSE first.row
         IN /\ timeoutPending' = FALSE
            /\ willComputeRowsToRender' = FALSE
            /\ isScrollingToSection' = TRUE
            /\ state' = [state EXCEPT !.buffer = Buffer(windowFirstRow, windowLastRow)]
            /\ jump' = "wait"
            /\ viewportY' = first.startY
            /\ nextSectionToScrollTo' = next
    ELSE /\ nextSectionToScrollTo' = sectionId
         /\ isScrollingToSection' = scrolling
         /\ jump' = pending
         /\ timeoutPending' = FALSE
         /\ willComputeRowsToRender' = FALSE
         /\ UNCHANGED <<state, viewportY>>

\* scrollToSectionBuffered(sectionId), reached with isScrollingToSection at
\* `scrolling`, nextSectionToScrollTo at `next` and the jump's pending callback
\* at `pending`.
ScrollToSectionBuffered(sectionId, scrolling, next, pending) ==
    IF ~scrolling /\ hasSection(lookup, sectionId)
    THEN LET first == getFirstRowOfSection(lookup, sectionId)
             totalRows == getRowCount(dataSource)
             lastRow == totalRows - 1
             windowLastRow == Min2(lastRow, first.row + props.initialNumToRender)
             windowFirstRow ==
                 IF windowLastRow - lastRow = 0
                 THEN Max2(0, windowLastRow - props.initialNumToRender)
                 ELSE first.row
         IN /\ timeoutPending' = FALSE
            /\ willComputeRowsToRender' = FALSE
            /\ isScrollingToSection' = TRUE
            /\ state' = [state EXCEPT !.buffer = Buffer(windowFirstRow, windowLastRow)]
            /\ jump' = "wait"
            /\ viewportY' = first.startY
            /\ nextSectionToScrollTo' = next
    ELSE /\ nextSectionToScrollTo' = sectionId
         /\ isScrollingToSection' = scrolling
         /\ jump' = pending
         /\ UNCHANGED <<timeoutPending, willComputeRowsToRender, state, viewportY>>

\* AtoZList._onTouchLetter: a letter of the picker is touched.
ScrollToSection ==
    /\ BetweenHandlers
    /\ \E sectionId \in RequestedSections :
          ScrollToSectionBuffered(sectionId, isScrollingToSection,
                                  nextSectionToScrollTo, jump)
    /\ UNCHANGED <<geomVars, call, props, platform, mounted, scrollOffsetY, height,
                   scrollDirection, retries>>

\* The callback of __maybeWait clearing the buffer window in an update of its
\* own, the main window left for a later one.
JumpReplaceWindow_ClearsBufferOnly ==
    /\ jump = "wait"
    /\ state' = [state EXCEPT !.buffer = NoBuffer]
    /\ jump' = IF nextSectionToScrollTo # NullSection THEN "next" ELSE "settle"
    /\ UNCHANGED <<geomVars, call, props, platform, mounted, scrollOffsetY, height,
                   scrollDirection, willComputeRowsToRender, timeoutPending,
                   nextSectionToScrollTo, isScrollingToSection, retries, viewportY>>

\* The callback of __maybeWait (after a frame on Android, at once on iOS): the
\* main window is set to the buffer window and the buffer is cleared; then the
\* queued jump is scheduled for the next frame, or the settle timer is started.
JumpReplaceWindow ==
    /\ jump = "wait"
    /\ state' = [firstRow |-> state.buffer.firstRow,
                 lastRow |-> state.buffer.lastRow,
                 buffer |-> NoBuffer]
    /\ jump' = IF nextSectionToScrollTo # NullSection THEN "next" ELSE "settle"
    /\ UNCHANGED <<geomVars, call, props, platform, mounted, scrollOffsetY, height,
                   scrollDirection, willComputeRowsToRender, timeoutPending,
                   nextSectionToScrollTo, isScrollingToSection, retries, viewportY>>

\* The animation frame that starts the queued jump.
JumpNextFrame ==
    /\ jump = "next"
    /\ ScrollToSectionBuffered(nextSectionToScrollTo, FALSE, NullSection, "none")
    /\ UNCHANGED <<geomVars, call, props, platform, mounted, scrollOffsetY, height,
                   scrollDirection, retries>>

\* The settle timer (100 ms) fires: recomputation resumes.
JumpSettleTimer ==
    /\ jump = "settle"
    /\ jump' = "none"
    /\ isScrollingToSection' = FALSE
    /\ willComputeRowsToRender' = TRUE
    /\ timeoutPending' = TRUE
    /\ UNCHANGED <<geomVars, call, props, platform, mounted, state, scrollOffsetY, height,
                   scrollDirection, nextSectionToScrollTo, retries, viewportY>>

Next ==
    \/ OnScroll
    \/ ComputeTimer
    \/ ComputeRetryFrame
    \/ ReceiveProps
    \/ ScrollToSection
    \/ JumpReplaceWindow
    \/ JumpNextFrame
    \/ JumpSettleTimer

Spec == Init /\ [][Next]_vars

(***************************************************************************)
(* SpecTeardown: the list view is used, then unmounted; the timers and the *)
(* animation frames still pending run after it.  React drops the setState  *)
(* of an unmounted component, callback included, and has set the ref of    *)
(* the scroll view to null.                                                *)
(***************************************************************************)
\* componentWillUnmount: clearTimeout(this.timeoutHandle).
Unmount ==
    /\ mounted
    /\ BetweenHandlers
    /\ mounted' = FALSE
    /\ timeoutPending' = FALSE
    /\ UNCHANGED <<geomVars, call, props, platform, state, scrollOffsetY, height,
                   scrollDirection, willComputeRowsToRender, nextSectionToScrollTo,
                   isScrollingToSection, jump, retries, viewportY>>

\* The frame of __maybeWait after the unmount: its setState is dropped and the
\* callback that continues the jump never runs.
UnmountedWaitFrame ==
    /\ ~mounted
    /\ jump = "wait"
    /\ jump' = "none"
    /\ UNCHANGED <<geomVars, call, props, platform, mounted, state, scrollOffsetY,
                   height, scrollDirection, willComputeRowsToRender, timeoutPending,
                   nextSectionToScrollTo, isScrollingToSection, retries, viewportY>>

\* The frame of the queued jump after the unmount: scrollToSectionBuffered runs
\* up to its setState, which is dropped, and this.scrollRef.scrollTo throws on
\* the null ref; for a section not in the table it queues the section again.
UnmountedNextFrame ==
    /\ ~mounted
    /\ jump = "next"
    /\ jump' = "none"
    /\ IF hasSection(lookup, nextSectionToScrollTo)
       THEN /\ timeoutPending' = FALSE
            /\ willComputeRowsToRender' = FALSE
            /\ isScrollingToSection' = TRUE
            /\ nextSectionToScrollTo' = NullSection
       ELSE /\ isScrollingToSection' = FALSE
            /\ UNCHANGED <<timeoutPending, willComputeRowsToRender,
                           nextSectionToScrollTo>>
    /\ UNCHANGED <<geomVars, call, props, platform, mounted, state, scrollOffsetY,
                   height, scrollDirection, retries, viewportY>>

NextTeardown ==
    \/ mounted /\ OnScroll
    \/ mounted /\ ScrollToSection
    \/ mounted /\ JumpReplaceWindow
    \/ mounted /\ JumpNextFrame
    \/ Unmount
    \/ ComputeTimer
    \/ ComputeRetryFrame
    \/ JumpSettleTimer
    \/ UnmountedWaitFrame
    \/ UnmountedNextFrame

SpecTeardown == Init /\ [][NextTeardown]_vars

(***************************************************************************)
(* SpecConfig: the list view is constructed with some budgets, valid or    *)
(* not, and its parent changes the budgets while it is mounted.  `call`    *)
(* records the constructor's outcome and the recompute run last.  A        *)
(* recompute whose invariant() throws is not followed further.             *)
(***************************************************************************)
ConfigChoices ==
    {[initialNumToRender |-> 1, maxNumToRender |-> m, pageSize |-> 1,
      numToRenderAhead |-> a, numToRenderBehind |-> b] :
        m \in 2..MaxBudget, a \in 1..MaxBudget, b \in 1..MaxBudget}

InitConfig ==
    /\ NoListView
    /\ heights = [header |-> 20, cell |-> 50]
    /\ dataSource = <<>>
    /\ lookup = <<>>
    /\ call = NoCall

\* The constructor: its invariant() calls throw, or the list view is mounted
\* with its initial window.
Construct ==
    /\ call = NoCall
    /\ \E p \in ConfigChoices, blob \in DataChoices :
          LET built == cloneWithCellsAndSections(blob, Keys(blob), heights)
          IN IF ConstructorAccepts(p)
             THEN /\ call' = [op |-> "constructor", budgets |-> p, ok |-> TRUE]
                  /\ mounted' = TRUE
                  /\ props' = p
                  /\ dataSource' = built.dataSource
                  /\ lookup' = built.lookup
                  /\ state' = [firstRow |-> 0,
                               lastRow |-> Min2(getRowCount(built.dataSource) - 1,
                                                p.initialNumToRender),
                               buffer |-> NoBuffer]
             ELSE /\ call' = [op |-> "constructor", budgets |-> p, ok |-> FALSE]
                  /\ UNCHANGED <<mounted, props, dataSource, lookup, state>>
    /\ UNCHANGED <<heights, platform, scrollOffsetY, height, scrollDirection,
                   willComputeRowsToRender, timeoutPending, nextSectionToScrollTo,
                   isScrollingToSection, jump, retries, viewportY>>

\* __computeRowsToRenderSync gets past its early returns to the call of
\* computeRowsToRender.
StepRuns(ds, lk, forceUpdate) ==
    /\ ~isScrollingToSection
    /\ getRowCount(ds) # 0
    /\ props.numToRenderAhead # 0
    /\ \/ forceUpdate
       \/ computeVisibleRows(ds, lk, scrollOffsetY, height).lastVisible
              < getRowCount(ds) - 1

\* The options' budgets a recompute under nextProps hands to computeRowsToRender.
BudgetsOf(nextProps) ==
    [maxNumToRender |-> nextProps.maxNumToRender,
     numToRenderAhead |-> nextProps.numToRenderAhead,
     numToRenderBehind |-> nextProps.numToRenderBehind]

Live == mounted /\ call.op # "recomputeThrows"

\* componentWillReceiveProps(nextProps) with new budgets: the forced recompute
\* under nextProps, before they become this.props.
ReceiveConfig ==
    /\ Live
    /\ \E nextProps \in ConfigChoices :
          IF StepRuns(dataSource, lookup, TRUE) /\ computeRowsToRenderThrows(nextProps)
          THEN /\ call' = [op |-> "recomputeThrows", budgets |-> BudgetsOf(nextProps)]
               /\ UNCHANGED <<props, state, willComputeRowsToRender, timeoutPending,
                              retries>>
          ELSE /\ call' = [op |-> "recompute", budgets |-> BudgetsOf(nextProps),
                           ran |-> StepRuns(dataSource, lookup, TRUE)]
               /\ props' = nextProps
               /\ ComputeRowsToRenderSync(dataSource, lookup, nextProps, TRUE,
                                          willComputeRowsToRender, timeoutPending,
                                          retries)
               /\ WithinDrift(state')
    /\ UNCHANGED <<geomVars, platform, mounted, scrollOffsetY, height,
                   scrollDirection, nextSectionToScrollTo, isScrollingToSection,
                   jump, viewportY>>

\* The timer of __enqueueComputeRowsToRender fires under the budgets in force.
ConfigComputeTimer ==
    /\ Live
    /\ timeoutPending
    /\ IF StepRuns(dataSource, lookup, FALSE) /\ computeRowsToRenderThrows(props)
       THEN /\ call' = [op |-> "recomputeThrows", budgets |-> BudgetsOf(props)]
            /\ willComputeRowsToRender' = FALSE
            /\ timeoutPending' = FALSE
            /\ UNCHANGED <<geomVars, props, platform, mounted, state, scrollOffsetY,
                           height, scrollDirection, nextSectionToScrollTo,
                           isScrollingToSection, jump, retries, viewportY>>
       ELSE /\ call' = [op |-> "recompute", budgets |-> BudgetsOf(props),
                        ran |-> StepRuns(dataSource, lookup, FALSE)]
            /\ ComputeTimerCallback
            /\ WithinDrift(state')

NextConfig ==
    \/ Construct
    \/ ReceiveConfig
    \/ ConfigComputeTimer
    \/ Live /\ OnScroll

SpecConfig == InitConfig /\ [][NextConfig]_vars

(***************************************************************************)
(* SpecJump: the jump state machine on its own.  From the mounted, idle    *)
(* list view a letter is touched once, or twice in succession with nothing *)
(* but the jump's own frames and timers in between; `call` records the     *)
(* letter and the number of requests.  The recompute that the settle timer *)
(* schedules stays pending.                                                *)
(***************************************************************************)
RequestSection ==
    /\ BetweenHandlers
    /\ \E sectionId \in RequestedSections :
          /\ hasSection(lookup, sectionId)
          /\ \/ /\ call = NoCall
                /\ call' = [op |-> "scrollToSection", sectionId |-> sectionId,
                            requests |-> 1]
             \/ /\ call = [op |-> "scrollToSection", sectionId |-> sectionId,
                            requests |-> 1]
                /\ call' = [call EXCEPT !.requests = 2]
          /\ ScrollToSectionBuffered(sectionId, isScrollingToSection,
                                     nextSectionToScrollTo, jump)
    /\ UNCHANGED <<geomVars, props, platform, mounted, scrollOffsetY, height,
                   scrollDirection, retries>>

NextJump ==
    \/ RequestSection
    \/ JumpReplaceWindow
    \/ JumpNextFrame
    \/ JumpSettleTimer

SpecJump == Init /\ [][NextJump]_vars

(***************************************************************************)
(* SpecRequests: letters of sections in the list are touched one after the *)
(* other, at any moment of the jumps in progress; nothing else happens but *)
(* the frames and timers of the jumps.  `call` records the section         *)
(* requested last and the number of requests.  The recompute that the      *)
(* settle timer schedules stays pending.                                   *)
(***************************************************************************)
RequestsMade == IF call.op = "requests" THEN call.made ELSE 0

RequestKnownSection ==
    /\ BetweenHandlers
    /\ RequestsMade < MaxRequests
    /\ \E sectionId \in RequestedSections :
          /\ hasSection(lookup, sectionId)
          /\ call' = [op |-> "requests", last |-> sectionId,
                      made |-> RequestsMade + 1]
          /\ ScrollToSectionBuffered(sectionId, isScrollingToSection,
                                     nextSectionToScrollTo, jump)
    /\ UNCHANGED <<geomVars, props, platform, mounted, scrollOffsetY, height,
                   scrollDirection, retries>>

NextRequests ==
    \/ RequestKnownSection
    \/ JumpReplaceWindow
    \/ JumpNextFrame
    \/ JumpSettleTimer

SpecRequests == Init /\ [][NextRequests]_vars

(***************************************************************************)
(* SpecDrain: the same run of requests, where the recompute that the       *)
(* settle timer schedules runs as well, so that the list view comes to     *)
(* rest with no timer pending.                                             *)
(***************************************************************************)
NextDrain ==
    \/ RequestKnownSection
    \/ JumpReplaceWindow
    \/ JumpNextFrame
    \/ JumpSettleTimer
    \/ ComputeTimer

SpecDrain == Init /\ [][NextDrain]_vars

(***************************************************************************)
(* SpecOrder: the order of the steps of a jump.  this.setState(update,     *)
(* callback) either applies the update before it returns (a call from a    *)
(* timer or an animation frame) or defers it to the end of the handler     *)
(* running (a call from a batched event handler); the callback runs once   *)
(* the update is committed, and an update made in the callback is          *)
(* committed before the pending setState returns.  this.scrollRef.scrollTo *)
(* takes effect where it is called.  `call` records the steps of the jump  *)
(* accepted last, in the order they took effect.                           *)
(***************************************************************************)
SetStateModes == {"immediate", "deferred"}

\* The steps of scrollToSectionBuffered that take effect before it returns to
\* the event loop, in order: on Android the callback of the first setState
\* leaves the second one to an animation frame, on iOS it runs it at once.
StepsInHandler(os, updates) ==
    IF updates = "immediate"
    THEN IF os = "android"
         THEN <<"commitBuffer", "scrollTo">>
         ELSE <<"commitBuffer", "replaceMain", "scrollTo">>
    ELSE IF os = "android"
         THEN <<"scrollTo", "commitBuffer">>
         ELSE <<"scrollTo", "commitBuffer", "replaceMain">>

\* scrollToSectionBuffered(sectionId) run to the point where control returns to
\* the event loop, the callbacks of its setState calls included, reached with
\* isScrollingToSection at `scrolling` and nextSectionToScrollTo at `next`.
ScrollToSectionHandler(sectionId, scrolling, next, pending, updates) ==
    IF ~scrolling /\ hasSection(lookup, sectionId)
    THEN LET first == getFirstRowOfSection(lookup, sectionId)
             totalRows == getRowCount(dataSource)
             lastRow == totalRows - 1
             windowLastRow == Min2(lastRow, first.row + props.initialNumToRender)
             windowFirstRow ==
                 IF windowLastRow - lastRow = 0
                 THEN Max2(0, windowLastRow - props.initialNumToRender)
                 ELSE first.row
         IN /\ timeoutPending' = FALSE
            /\ willComputeRowsToRender' = FALSE
            /\ isScrollingToSection' = TRUE
            /\ viewportY' = first.startY
            /\ nextSectionToScrollTo' = next
            /\ call' = [op |-> "jump", sectionId |-> sectionId,
                        steps |-> StepsInHandler(platform, updates)]
            /\ IF platform = "android"
               THEN /\ state' = [state EXCEPT
                                    !.buffer = Buffer(windowFirstRow, windowLastRow)]
                    /\ jump' = "wait"
               ELSE /\ state' = [firstRow |-> windowFirstRow,
                                 lastRow |-> windowLastRow,
                                 buffer |-> NoBuffer]
                    /\ jump' = IF next # NullSection THEN "next" ELSE "settle"
    ELSE /\ nextSectionToScrollTo' = sectionId
         /\ isScrollingToSection' = scrolling
         /\ jump' = pending
         /\ UNCHANGED <<timeoutPending, willComputeRowsToRender, state, viewportY,
                        call>>

\* AtoZList._onTouchLetter: a letter of the picker is touched.
OrderTouchLetter ==
    /\ \E sectionId \in RequestedSections, updates \in SetStateModes :
          ScrollToSectionHandler(sectionId, isScrollingToSection,
                                 nextSectionToScrollTo, jump, updates)
    /\ UNCHANGED <<geomVars, props, platform, mounted, scrollOffsetY, height,
                   scrollDirection, retries>>

\* The animation frame of __maybeWait on Android: the main window is set to
\* the buffer window.
OrderWaitFrame ==
    /\ jump = "wait"
    /\ state' = [firstRow |-> state.buffer.firstRow,
                 lastRow |-> state.buffer.lastRow,
                 buffer |-> NoBuffer]
    /\ jump' = IF nextSectionToScrollTo # NullSection THEN "next" ELSE "settle"
    /\ call' = [call EXCEPT !.steps = Append(@, "replaceMain")]
    /\ UNCHANGED <<geomVars, props, platform, mounted, scrollOffsetY, height,
                   scrollDirection, willComputeRowsToRender, timeoutPending,
                   nextSectionToScrollTo, isScrollingToSection, retries, viewportY>>

\* The animation frame that starts the queued jump.
OrderNextFrame ==
    /\ jump = "next"
    /\ \E updates \in SetStateModes :
          ScrollToSectionHandler(nextSectionToScrollTo, FALSE, NullSection, "none",
                                 updates)
    /\ UNCHANGED <<geomVars, props, platform, mounted, scrollOffsetY, height,
                   scrollDirection, retries>>

NextOrder ==
    \/ OrderTouchLetter
    \/ OrderWaitFrame
    \/ OrderNextFrame
    \/ JumpSettleTimer

SpecOrder == Init /\ [][NextOrder]_vars

(***************************************************************************)
(* render: the rows handed to the scroll view.                             *)
(***************************************************************************)
\* clamp(min, value, max) of the React Native utilities.
clamp(min, value, max) ==
    IF value < min THEN min ELSE IF value > max THEN max ELSE value

\* __renderCells(rows, firstRow, lastRow): the cells pushed.
renderCells(firstRow, lastRow) ==
    IF lastRow >= firstRow THEN lastRow - firstRow + 1 ELSE 0

\* render(): the number of cells among the children of the scroll view.
renderedCells(st) ==
    LET bufferLastRow ==
            IF st.buffer.set /\ st.buffer.firstRow < st.firstRow
            THEN clamp(0, st.buffer.lastRow, st.firstRow - 1)
            ELSE IF st.buffer.set THEN st.buffer.lastRow ELSE -1
        above == IF st.buffer.set /\ st.buffer.firstRow < st.firstRow
                 THEN renderCells(st.buffer.firstRow, bufferLastRow)
                 ELSE 0
        below == IF st.buffer.set /\ st.buffer.firstRow > st.lastRow
                 THEN renderCells(st.buffer.firstRow, bufferLastRow)
                 ELSE 0
    IN above + renderCells(st.firstRow, st.lastRow) + below

\* __calculateSpacers on the state st: the heights of the three spacers.
calculateSpacers(ds, lk, st) ==
    LET top == Ok(getHeightBeforeRow(lk, st.firstRow))
        bottom == getHeightAfterRow(ds, lk, st.lastRow)
    IN IF st.buffer.set /\ st.buffer.firstRow < st.firstRow
       THEN LET mid == getHeightBetweenRows(lk, st.buffer.lastRow, st.firstRow)
                bufferHeight == getHeightBetweenRows(lk, st.buffer.firstRow - 1,
                                                     st.buffer.lastRow + 1)
            IN [spacerTopHeight |-> Sub(top, Ok(mid + bufferHeight)),
                spacerBottomHeight |-> bottom,
                spacerMidHeight |-> Ok(mid)]
       ELSE IF st.buffer.set /\ st.buffer.firstRow > st.lastRow
       THEN LET mid == getHeightBetweenRows(lk, st.lastRow, st.buffer.firstRow)
            IN [spacerTopHeight |-> top,
                spacerBottomHeight |-> Sub(bottom, Ok(mid)),
                spacerMidHeight |-> Ok(mid)]
       ELSE [spacerTopHeight |-> top,
             spacerBottomHeight |-> bottom,
             spacerMidHeight |-> NotNum(Undefined)]

\* A spacer view and a cell of the scroll view's children.
Spacer(key, h) == [key |-> key, row |-> -1, height |-> h]
Cell(ds, lk, idx) == [key |-> "cell", row |-> idx, height |-> getRowHeight(ds, lk, idx)]

\* __renderCells(rows, firstRow, lastRow): the cells pushed, in order.
renderCellsOf(ds, lk, firstRow, lastRow) ==
    [k \in 1..renderCells(firstRow, lastRow) |-> Cell(ds, lk, firstRow + k - 1)]

\* render(): the children of the scroll view, in order.
render(ds, lk, st) ==
    LET spacers == calculateSpacers(ds, lk, st)
        above == IF st.buffer.set /\ st.buffer.firstRow < st.firstRow
                 THEN renderCellsOf(ds, lk, st.buffer.firstRow,
                                    clamp(0, st.buffer.lastRow, st.firstRow - 1))
                 ELSE <<>>
        below == IF st.buffer.set /\ st.buffer.firstRow > st.lastRow
                 THEN <<Spacer("sp-mid", spacers.spacerMidHeight)>>
                          \o renderCellsOf(ds, lk, st.buffer.firstRow, st.buffer.lastRow)
                 ELSE <<>>
    IN <<Spacer("sp-top", spacers.spacerTopHeight)>>
           \o above
           \o renderCellsOf(ds, lk, st.firstRow, st.lastRow)
           \o below
           \o <<Spacer("sp-bot", spacers.spacerBottomHeight)>>

(***************************************************************************)
(* SpecLoop: the recompute loop on its own.  The list view comes to rest at *)
(* some scroll offset, in some direction, with some window of the list     *)
(* rendered and the timer of a recompute pending; from then on nothing but *)
(* the timer fires.  `call` counts the ticks of the run.                   *)
(***************************************************************************)
LoopProps ==
    {[initialNumToRender |-> 1, maxNumToRender |-> 3, pageSize |-> ps,
      numToRenderAhead |-> a, numToRenderBehind |-> 1] :
        ps \in 1..MaxPage, a \in 1..2}

LoopOffsets == {0, 100, 250}

\* The windows of a list of t rows, of at most max + 1 rows.
WindowsOf(t, max) ==
    {w \in (0..t) \X ((-1)..(t - 1)) : w[1] <= w[2] + 1 /\ w[2] - w[1] <= max}

InitLoop ==
    /\ NoListView
    /\ heights = [header |-> 20, cell |-> 50]
    /\ dataSource = <<>>
    /\ lookup = <<>>
    /\ call = NoCall

\* The list view is mounted on a data source with its budgets, and the last
\* scroll event of a gesture leaves it at rest with the timer set.
LoopStart ==
    /\ call = NoCall
    /\ \E blob \in DataChoices :
          LET built == cloneWithCellsAndSections(blob, Keys(blob), heights)
          IN /\ dataSource' = built.dataSource
             /\ lookup' = built.lookup
             /\ props' \in {p \in LoopProps : ConstructorAccepts(p)}
             /\ \E w \in WindowsOf(getRowCount(built.dataSource), props'.maxNumToRender) :
                   /\ state' = [firstRow |-> w[1], lastRow |-> w[2], buffer |-> NoBuffer]
                   /\ call' = [op |-> "recomputeLoop", ticks |-> 0,
                               firstRendered |-> w[1], lastRendered |-> w[2]]
    /\ scrollOffsetY' \in LoopOffsets
    /\ height' = LayoutHeight
    /\ scrollDirection' \in Directions
    /\ willComputeRowsToRender' = TRUE
    /\ timeoutPending' = TRUE
    /\ viewportY' = scrollOffsetY'
    /\ mounted' = TRUE
    /\ UNCHANGED <<heights, platform, nextSectionToScrollTo, isScrollingToSection,
                   jump, retries>>

\* One tick of the loop: the timer fires, the step runs, the window is
\* committed and the timer is set again unless the window is at its target.
LoopTick ==
    /\ call.op = "recomputeLoop"
    /\ call.ticks < MaxTicks
    /\ ComputeTimerCallback
    /\ call' = [call EXCEPT !.ticks = @ + 1]

NextLoop ==
    \/ LoopStart
    \/ LoopTick

SpecLoop == InitLoop /\ [][NextLoop]_vars

(***************************************************************************)
(* Properties of the geometry index (SpecGeom).                            *)
(***************************************************************************)
\* The data source of the example: sections A:[3 cells], B:[2 cells], header
\* 20, cell 50.
ExampleAB ==
    /\ heights = [header |-> 20, cell |-> 50]
    /\ dataSource = FlattenRows(BlobOf(<<3, 2>>), <<"A", "B">>)

RECURSIVE SumRowHeights(_, _, _)
\* The sum of getRowHeight(j) over the rows j < i.
SumRowHeights(ds, lk, i) ==
    IF i <= 0 THEN 0
    ELSE getRowHeight(ds, lk, i - 1).value + SumRowHeights(ds, lk, i - 1)

\* The rows whose pixel span [offsetBeforeRow(i), offsetBeforeRow(i) + rowHeight(i))
\* holds y.
RowsSpanning(ds, lk, y) ==
    {i \in 0..(getRowCount(ds) - 1) :
        /\ getHeightBeforeRow(lk, i) <= y
        /\ y < getHeightBeforeRow(lk, i) + getRowHeight(ds, lk, i).value}

\* C6: rowAtOffset is the inverse of the offset mapping: every y inside the span
\* of a valid row i gives rowAtOffset(y) = i; in the example rowAtOffset(170) = 4
\* and rowAtOffset(0) = 0.
C6_RowAtOffsetInverse ==
    call.op = "getRowAtHeight" =>
        /\ \A i \in RowsSpanning(dataSource, lookup, call.y) :
               call.result.ok /\ call.result.value = i
        /\ (ExampleAB /\ call.y = 170) => (call.result.ok /\ call.result.value = 4)
        /\ (ExampleAB /\ call.y = 0) => (call.result.ok /\ call.result.value = 0)

C8_MonotonicOffsets ==
    /\ (call.op = "getHeightBeforeRow" /\ call.i \in 0..getRowCount(dataSource)) =>
           \A j \in call.i..getRowCount(dataSource) :
               call.result.value <= getHeightBeforeRow(lookup, j)
    /\ (call.op = "getRowAtHeight" /\ call.result.ok) =>
           \A y2 \in {call.y + 1, getTotalHeight(lookup) + 1} :
               (call.y <= y2 /\ getRowAtHeight(dataSource, lookup, y2).ok) =>
                   call.result.value <= getRowAtHeight(dataSource, lookup, y2).value

\* An offset at a section boundary (one section's endY, the next one's startY)
\* has been looked up in a table of two sections with cells.
C8_Witness ==
    /\ call.op = "getRowAtHeight"
    /\ Len(lookup) = 2
    /\ call.y = lookup[1].endY
    /\ call.y = lookup[2].startY
    /\ lookup[1].count > 1
    /\ call.result.ok
    /\ call.result.value = lookup[1].range[2]

\* C9 as stated: for a non-empty list, firstVisible = rowAtOffset(scrollY) and
\* lastVisible = rowAtOffset(scrollY + viewportHeight) + 1 clamped to the valid
\* row indices: both lie in [0, rowCount - 1].
C9_VisibleRangeClamped ==
    (call.op = "computeVisibleRows" /\ getRowCount(dataSource) > 0) =>
        /\ call.result.ok
        /\ call.result.firstVisible = getRowAtHeight(dataSource, lookup, call.y).value
        /\ call.result.lastVisible
               = Min2(getRowAtHeight(dataSource, lookup, call.y + call.h).value + 1,
                      getRowCount(dataSource) - 1)
        /\ call.result.firstVisible \in 0..(getRowCount(dataSource) - 1)
        /\ call.result.lastVisible \in 0..(getRowCount(dataSource) - 1)

\* C9 as amended: lastVisible is rowAtOffset(scrollY + viewportHeight) + 1 and is
\* not clamped: firstVisible lies in [0, rowCount - 1], lastVisible in
\* [1, rowCount] (rowCount when the viewport bottom is looked up as the last
\* row), and firstVisible < lastVisible.
C9_VisibleRangeUnclamped ==
    (call.op = "computeVisibleRows" /\ getRowCount(dataSource) > 0) =>
        /\ call.result.ok
        /\ call.result.firstVisible = getRowAtHeight(dataSource, lookup, call.y).value
        /\ call.result.lastVisible
               = getRowAtHeight(dataSource, lookup, call.y + call.h).value + 1
        /\ call.result.firstVisible \in 0..(getRowCount(dataSource) - 1)
        /\ call.result.lastVisible \in 1..getRowCount(dataSource)
        /\ call.result.firstVisible < call.result.lastVisible

\* The viewport bottom is past the end of the content of a list of several rows.
C9_Witness ==
    /\ call.op = "computeVisibleRows"
    /\ getRowCount(dataSource) > 1
    /\ call.y + call.h > getTotalHeight(lookup)
    /\ call.result.ok
    /\ call.result.lastVisible = getRowCount(dataSource)

\* The errors the lookups are specified to fail with.
IndexError == "IndexError"
UnknownSectionError == "UnknownSectionError"

\* C18: out-of-range lookups end in an error, never in a sentinel value:
\* rowAt(i) for i outside [0, rowCount) fails with an index error, and the
\* lookup of a section that is not in the table fails with an unknown-section
\* error.
C18_LookupsFail ==
    /\ (call.op = "getRowData" /\ ~HasRow(dataSource, call.i)) =>
           call.result = Throw(IndexError)
    /\ (call.op = "getFirstRowOfSection" /\ ~hasSection(lookup, call.sectionId)) =>
           call.result = Throw(UnknownSectionError)

(***************************************************************************)
(* Properties of the build (SpecBuild).                                    *)
(***************************************************************************)
\* The section entries in insertion order: the order of the sectionIds that
\* are in the blob.
EntriesInInsertionOrder ==
    LET present == SectionIdsPresent(call.dataBlob, call.sectionIds)
    IN [k \in 1..Len(present) |-> SectionEntry(lookup, present[k])]

\* C23: after a build with distinct section ids, the section entries in
\* insertion order partition the rows [0, rowCount) by their inclusive ranges,
\* header row first, and the pixels [0, totalHeight) by [startY, endY), without
\* gaps or overlaps, totalHeight being the last entry's endY; and a second
\* build of the same data leaves the row count, the rows and the table as the
\* first build left them.
C23_BuildPartitions ==
    call.op = "build" =>
        LET entries == EntriesInInsertionOrder
            n == Len(entries)
        IN /\ Len(lookup) = n
           /\ n = 0 => (getRowCount(dataSource) = 0 /\ getTotalHeight(lookup) = 0)
           /\ n > 0 =>
                  /\ entries[1].range[1] = 0
                  /\ entries[1].startY = 0
                  /\ entries[n].range[2] = getRowCount(dataSource) - 1
                  /\ entries[n].endY = getTotalHeight(lookup)
           /\ \A k \in 1..n :
                  /\ entries[k].range[1] <= entries[k].range[2]
                  /\ entries[k].startY < entries[k].endY
                  /\ getRowData(dataSource, entries[k].range[1]).sectionId
                         = entries[k].sectionId
                  /\ \A i \in (entries[k].range[1] + 1)..entries[k].range[2] :
                         getRowData(dataSource, i).sectionId = NoSection
           /\ \A k \in 1..(n - 1) :
                  /\ entries[k + 1].range[1] = entries[k].range[2] + 1
                  /\ entries[k + 1].startY = entries[k].endY
           /\ call.builds = 2 =>
                  (dataSource = call.dataSource /\ lookup = call.lookup)

(***************************************************************************)
(* Properties of computeRowsToRender (SpecStep).                           *)
(***************************************************************************)
\* The rendered window of the options is a window of the list: non-empty,
\* inside [0, totalRows - 1] and of at most maxNumToRender rows.
RenderedWindowInList(o) ==
    /\ 0 <= o.firstRendered
    /\ o.firstRendered <= o.lastRendered
    /\ o.lastRendered <= o.totalRows - 1
    /\ o.lastRendered - o.firstRendered + 1 <= o.maxNumToRender

Converged(r) == r.firstRow = r.targetFirstRow /\ r.lastRow = r.targetLastRow

\* C2: after any recompute with numToRenderAhead, numToRenderBehind <
\* maxNumToRender, in either direction, the window has at most maxNumToRender
\* rows, firstRow >= 0 and lastRow <= totalRows - 1. (Stated here of the calls
\* whose rendered window is itself a window of the list within the budget.)
C2_WindowBudget ==
    (call.op = "computeRowsToRender" /\ RenderedWindowInList(call.options)) =>
        /\ call.result.lastRow - call.result.firstRow + 1
               <= call.options.maxNumToRender
        /\ call.result.firstRow >= 0
        /\ call.result.lastRow <= call.options.totalRows - 1

\* C3: a recompute while scrolling down that reports convergence covers the
\* visible range: firstRow <= firstVisible and lastRow >= min(lastVisible,
\* totalRows - 1). (Stated here of the calls whose rendered window is itself a
\* window of the list within the budget.)
C3_ConvergedDownCoversVisible ==
    (/\ call.op = "computeRowsToRender"
     /\ call.options.scrollDirection = "down"
     /\ RenderedWindowInList(call.options)
     /\ Converged(call.result)) =>
        /\ call.result.firstRow <= call.options.firstVisible
        /\ call.result.lastRow
               >= Min2(call.options.lastVisible, call.options.totalRows - 1)

\* The options of the documented downward step: the default budgets, 100 rows,
\* window [0,10], visible range [8,10].
ExampleDownwardStep ==
    DefaultBudgets @@ [scrollDirection |-> "down", firstVisible |-> 8,
                       lastVisible |-> 10, firstRendered |-> 0,
                       lastRendered |-> 10, totalRows |-> 100]

\* C19: for a downward step, targetLastRow = min(totalRows - 1, lastVisible +
\* ahead - behind, firstVisible + numRendered + ahead - behind) with numRendered
\* = lastRendered - firstRendered + 1, lastRow = min(targetLastRow, lastRendered
\* + pageSize), and firstRow = targetFirstRow = max(0, firstVisible - behind,
\* lastRow - maxNumToRender) on the lastRow just computed; the documented
\* example gives the window [6,12], equal to its target.
C19_DownwardStep ==
    (call.op = "computeRowsToRender" /\ call.options.scrollDirection = "down") =>
        LET o == call.options
            numRendered == o.lastRendered - o.firstRendered + 1
            ahead == o.numToRenderAhead - o.numToRenderBehind
            targetLastRow == Min3(o.totalRows - 1, o.lastVisible + ahead,
                                  o.firstVisible + numRendered + ahead)
            lastRow == Min2(targetLastRow, o.lastRendered + o.pageSize)
            firstRow == Max3(0, o.firstVisible - o.numToRenderBehind,
                             lastRow - o.maxNumToRender)
        IN /\ call.result = [firstRow |-> firstRow, lastRow |-> lastRow,
                             targetFirstRow |-> firstRow,
                             targetLastRow |-> targetLastRow]
           /\ o = ExampleDownwardStep =>
                  call.result = [firstRow |-> 6, lastRow |-> 12,
                                 targetFirstRow |-> 6, targetLastRow |-> 12]

C19_Witness ==
    /\ call.op = "computeRowsToRender"
    /\ call.options = ExampleDownwardStep
    /\ call.result.firstRow = 6
    /\ call.result.lastRow = 12
    /\ Converged(call.result)

\* C21: one tick advances the leading edge of the window by at most pageSize
\* rows in the direction of travel: scrolling down lastRow <= lastRendered +
\* pageSize, scrolling up firstRow >= firstRendered - pageSize, from every
\* rendered window (empty, inverted or past the end included) and for every
\* visible range.
C21_EdgeAdvancesAtMostPage ==
    call.op = "computeRowsToRender" =>
        /\ call.options.scrollDirection = "down" =>
               call.result.lastRow <= call.options.lastRendered + call.options.pageSize
        /\ call.options.scrollDirection = "up" =>
               call.result.firstRow >= call.options.firstRendered - call.options.pageSize

\* Scrolling up, the target lies more than a page above the rendered window:
\* the step stops a page above it, short of the target.
C21_Witness ==
    /\ call.op = "computeRowsToRender"
    /\ call.options.scrollDirection = "up"
    /\ call.options.pageSize = 1
    /\ call.result.firstRow = call.options.firstRendered - 1
    /\ call.result.targetFirstRow < call.result.firstRow - 1

\* The options of the next call: the same direction, visible range and
\* budgets, the window returned as the rendered window.
OptionsAfter(o, r) ==
    [o EXCEPT !.firstRendered = r.firstRow, !.lastRendered = r.lastRow]

\* C26: a reported convergence is a fixed point: whenever computeRowsToRender
\* returns firstRow = targetFirstRow and lastRow = targetLastRow, the call with
\* the same direction, visible range and budgets on the returned window
\* returns that window again.
C26_ConvergenceIsFixedPoint ==
    (call.op = "computeRowsToRender" /\ Converged(call.result)) =>
        LET again == computeRowsToRender(OptionsAfter(call.options, call.result))
        IN /\ again.firstRow = call.result.firstRow
           /\ again.lastRow = call.result.lastRow

\* C30: a recompute while scrolling up that reports convergence covers the
\* visible range: firstRow <= firstVisible and lastRow >= min(lastVisible,
\* totalRows - 1). (Stated here of the calls whose rendered window is itself a
\* window of the list within the budget, one that ends above lastVisible
\* included.)
C30_ConvergedUpCoversVisible ==
    (/\ call.op = "computeRowsToRender"
     /\ call.options.scrollDirection = "up"
     /\ RenderedWindowInList(call.options)
     /\ Converged(call.result)) =>
        /\ call.result.firstRow <= call.options.firstVisible
        /\ call.result.lastRow
               >= Min2(call.options.lastVisible, call.options.totalRows - 1)

(***************************************************************************)
(* Properties of the recompute loop (SpecLoop).                            *)
(***************************************************************************)
\* The rows between the window the loop started from and the farthest target
\* of the held visible range: min(totalRows - 1, lastVisible + ahead - behind)
\* below lastRendered scrolling down, max(0, firstVisible - ahead + behind)
\* above firstRendered scrolling up.
LoopDistance ==
    IF getRowCount(dataSource) = 0 THEN 0
    ELSE LET visible == computeVisibleRows(dataSource, lookup, scrollOffsetY, height)
         IN IF scrollDirection = "down"
            THEN Max2(0, Min2(getRowCount(dataSource) - 1,
                              visible.lastVisible + props.numToRenderAhead
                                  - props.numToRenderBehind)
                             - call.lastRendered)
            ELSE Max2(0, call.firstRendered
                             - Max2(0, visible.firstVisible - props.numToRenderAhead
                                           + props.numToRenderBehind))

C1_WindowInvariant ==
    /\ 0 <= state.firstRow
    /\ state.firstRow <= state.lastRow + 1
    /\ state.lastRow + 1 <= getRowCount(dataSource)
    /\ getRowCount(dataSource) = 0 => (state.firstRow = 0 /\ state.lastRow = -1)

\* C5: in every reachable state the rows materialized (the main window and,
\* during a jump, the buffer window) are at most maxNumToRender.
C5_MaterializedWithinBudget ==
    renderedCells(state) <= props.maxNumToRender

\* The row of the header of section sectionId in the flattened rows.
HeaderRowOf(ds, sectionId) ==
    (CHOOSE i \in 1..Len(ds) : ds[i].sectionId = sectionId) - 1

\* The buffer window and the offset of a jump to the section whose header is
\* row r: [r, min(totalRows - 1, r + initialNumToRender)], its start pulled
\* back to max(0, end - initialNumToRender) when the end was clamped.
JumpWindowOf(r, totalRows, initialNumToRender) ==
    LET end == Min2(totalRows - 1, r + initialNumToRender)
        start == IF end < r + initialNumToRender
                 THEN Max2(0, end - initialNumToRender)
                 ELSE r
    IN Buffer(start, end)

\* C10: a scrollToSection(id) for a known section received while idle sets the
\* buffer window to JumpWindowOf the section's first row and moves the viewport
\* to the section's startY (the sum of the heights of the rows before it); the
\* buffer window contains that row and lies within [0, totalRows - 1]; in the
\* A/B example with initialNumToRender = 1, section B: buffer [4,5], offset 170.
C10_JumpBufferWindow ==
    [][\A sectionId \in RequestedSections :
          (/\ ~isScrollingToSection
           /\ hasSection(lookup, sectionId)
           /\ ScrollToSection
           /\ ScrollToSectionBuffered(sectionId, isScrollingToSection,
                                      nextSectionToScrollTo, jump)) =>
              LET r == HeaderRowOf(dataSource, sectionId)
                  totalRows == getRowCount(dataSource)
              IN /\ state'.buffer = JumpWindowOf(r, totalRows, props.initialNumToRender)
                 /\ viewportY' = SumRowHeights(dataSource, lookup, r)
                 /\ state'.buffer.firstRow <= r
                 /\ r <= state'.buffer.lastRow
                 /\ 0 <= state'.buffer.firstRow
                 /\ state'.buffer.lastRow <= totalRows - 1
                 /\ isScrollingToSection'
                 /\ (ExampleAB /\ sectionId = "B" /\ props.initialNumToRender = 1) =>
                        (state'.buffer = Buffer(4, 5) /\ viewportY' = 170)]_vars

\* The jump to section B of the A/B example has set the buffer window, and the
\* main window has yet to be replaced.
C10_Witness ==
    /\ ExampleAB
    /\ props.initialNumToRender = 1
    /\ isScrollingToSection
    /\ jump = "wait"
    /\ state.buffer = Buffer(4, 5)
    /\ viewportY = 170

\* What a handler leaves alone when it touches neither the windows, nor the
\* viewport, nor the recompute latch and its timers.
WindowsAndTimersUnchanged ==
    UNCHANGED <<state, viewportY, scrollOffsetY, height, scrollDirection,
                willComputeRowsToRender, timeoutPending, retries,
                isScrollingToSection, jump, dataSource, lookup, props, mounted>>

\* C11: a scrollToSection request received while a jump is in progress (its
\* frame wait and its settle delay included) only overwrites the one queued
\* section with the new id: the row window, the buffer window, the viewport
\* offset, the recompute latch and the timers are unchanged.
C11_RequestWhileJumpingOnlyQueues ==
    [][(isScrollingToSection /\ ScrollToSection) =>
          /\ nextSectionToScrollTo' \in RequestedSections
          /\ \A sectionId \in RequestedSections :
                 ScrollToSectionBuffered(sectionId, isScrollingToSection,
                                         nextSectionToScrollTo, jump)
                     => nextSectionToScrollTo' = sectionId
          /\ WindowsAndTimersUnchanged]_vars

\* A request has arrived during the settle delay of a jump and is queued.
C11_Witness ==
    /\ isScrollingToSection
    /\ jump = "settle"
    /\ nextSectionToScrollTo = "B"
    /\ state.buffer = NoBuffer

\* C12: while a jump is in progress no recompute changes firstRow or lastRow,
\* whatever scroll events, timers or data changes interleave: the main window
\* changes only by the jump's own step, which sets it to the buffer window.
C12_NoRecomputeWhileJumping ==
    [][isScrollingToSection =>
          \/ /\ state'.firstRow = state.firstRow
             /\ state'.lastRow = state.lastRow
          \/ /\ JumpReplaceWindow
             /\ state.buffer.set
             /\ state'.firstRow = state.buffer.firstRow
             /\ state'.lastRow = state.buffer.lastRow]_vars

\* A recompute has run into the jump in progress and waits for a frame, the
\* main window still the one the jump set.
C12_Witness ==
    /\ isScrollingToSection
    /\ retries > 0
    /\ jump = "settle"
    /\ ExampleAB
    /\ state.firstRow = 4
    /\ state.lastRow = 5
    /\ scrollOffsetY = 250

\* C13: an accepted jump completes: with no request queued when the main window
\* has been set to the buffer window, the settle timer returns the controller
\* to idle and schedules a recompute; with a request queued, a new jump for
\* the queued section starts, the queue is emptied, and the controller is not
\* idle in between.
C13_JumpCompletes ==
    [][/\ JumpReplaceWindow =>
              /\ isScrollingToSection'
              /\ jump' = IF nextSectionToScrollTo = NullSection
                         THEN "settle" ELSE "next"
       /\ JumpSettleTimer =>
              /\ ~isScrollingToSection'
              /\ jump' = "none"
              /\ willComputeRowsToRender'
              /\ timeoutPending'
       /\ JumpNextFrame =>
              /\ isScrollingToSection'
              /\ jump' = "wait"
              /\ state'.buffer.set
              /\ nextSectionToScrollTo' = NullSection]_vars

\* C15: at most one recompute is pending at any time, the debounced timer and
\* the animation-frame retries of a recompute that ran during a jump counted
\* together.
C15_OneRecomputePending ==
    (IF timeoutPending THEN 1 ELSE 0) + retries <= 1

\* C20: a recompute that is not forced (rows in the list, numToRenderAhead > 0,
\* no jump in progress) whose rendered window does not reach the last row runs
\* the step and commits its window.
C20_SkipsOnlyWhenWindowAtEnd ==
    [][(/\ ComputeTimer
        /\ ~isScrollingToSection
        /\ getRowCount(dataSource) > 0
        /\ props.numToRenderAhead > 0
        /\ state.lastRow # getRowCount(dataSource) - 1) =>
          LET visible == computeVisibleRows(dataSource, lookup, scrollOffsetY, height)
              result == computeRowsToRender(
                  [scrollDirection |-> scrollDirection,
                   firstVisible |-> visible.firstVisible,
                   lastVisible |-> visible.lastVisible,
                   firstRendered |-> state.firstRow,
                   lastRendered |-> state.lastRow,
                   maxNumToRender |-> props.maxNumToRender,
                   pageSize |-> props.pageSize,
                   numToRenderAhead |-> props.numToRenderAhead,
                   numToRenderBehind |-> props.numToRenderBehind,
                   totalRows |-> getRowCount(dataSource)])
          IN /\ state'.firstRow = result.firstRow
             /\ state'.lastRow = result.lastRow]_vars

RECURSIVE HeightOfChildren(_, _)
\* The height of the first n children laid out one below the other.
HeightOfChildren(children, n) ==
    IF n = 0 THEN 0
    ELSE children[n].height.value + HeightOfChildren(children, n - 1)

\* C22: while the buffer window lies after the main window during a jump, the
\* layout rendered is accurate: every spacer and cell has a height, every cell
\* of the main window and of the buffer window starts at offsetBeforeRow(row),
\* and the height of the content (top spacer, main rows, mid spacer, buffer
\* rows, bottom spacer) is the total height of the list.
C22_BufferLayoutAccurate ==
    (state.buffer.set /\ state.buffer.firstRow > state.lastRow) =>
        LET children == render(dataSource, lookup, state)
        IN /\ \A k \in 1..Len(children) : children[k].height.ok
           /\ \A k \in 1..Len(children) :
                  children[k].key = "cell" =>
                      HeightOfChildren(children, k - 1)
                          = getHeightBeforeRow(lookup, children[k].row)
           /\ HeightOfChildren(children, Len(children)) = getTotalHeight(lookup)

\* C25: the buffer window is present only during a jump: whenever
\* bufferFirstRow / bufferLastRow are set a jump is in progress and waits for
\* the replacement of the main window; and the update that clears the buffer
\* window is the one that sets the main window to it, so that no state has the
\* buffer cleared and the main window not yet replaced.
C25_BufferOnlyDuringJump ==
    /\ [](state.buffer.set => (isScrollingToSection /\ jump = "wait"))
    /\ [][(state.buffer.set /\ ~state'.buffer.set) =>
              /\ state'.firstRow = state.buffer.firstRow
              /\ state'.lastRow = state.buffer.lastRow
              /\ isScrollingToSection']_vars

\* The jump to section B of the A/B example has replaced the main window by
\* the buffer window [4,5] and cleared the buffer; the settle delay runs.
C25_Witness ==
    /\ ExampleAB
    /\ isScrollingToSection
    /\ jump = "settle"
    /\ state = [firstRow |-> 4, lastRow |-> 5, buffer |-> NoBuffer]
    /\ viewportY = 170
    /\ retries = 0

\* No jump is in progress and no timer or frame is pending.
Quiescent ==
    /\ ~isScrollingToSection
    /\ jump = "none"
    /\ ~timeoutPending
    /\ retries = 0

\* C28: a request stored in the queue while the controller is busy (a request
\* for a section of the list is stored only then) is executed as a jump or
\* overwritten without any further request: once the controller is idle with
\* no timers pending, the queue is empty.
C28_QueueDrained ==
    Quiescent => nextSectionToScrollTo = NullSection

\* C29: a request for a section that is not in the data source, received while
\* idle, changes no controller state (the queue stays empty; windows, viewport
\* and latch unchanged); and an unknown id taken from the queue at the end of
\* a jump is discarded: the queue is empty, the controller is idle and a
\* recompute is scheduled.
C29_UnknownSectionIgnored ==
    [][/\ \A sectionId \in RequestedSections :
              (/\ ~isScrollingToSection
               /\ ~hasSection(lookup, sectionId)
               /\ ScrollToSection
               /\ ScrollToSectionBuffered(sectionId, isScrollingToSection,
                                          nextSectionToScrollTo, jump)) =>
                  /\ nextSectionToScrollTo' = nextSectionToScrollTo
                  /\ WindowsAndTimersUnchanged
       /\ (JumpNextFrame /\ ~hasSection(lookup, nextSectionToScrollTo)) =>
              /\ nextSectionToScrollTo' = NullSection
              /\ ~isScrollingToSection'
              /\ jump' = "none"
              /\ willComputeRowsToRender'
              /\ timeoutPending']_vars

(***************************************************************************)
(* Properties of the teardown (SpecTeardown).                              *)
(***************************************************************************)
\* C16: after componentWillUnmount no pending timer or animation frame fires a
\* recompute, sets the latch or changes the row or buffer window.
C16_TeardownCancels ==
    [][~mounted =>
          /\ ~ComputeTimer
          /\ ~ComputeRetryFrame
          /\ willComputeRowsToRender' => willComputeRowsToRender
          /\ state' = state]_vars

(***************************************************************************)
(* Properties of the configuration (SpecConfig).                           *)
(***************************************************************************)
BudgetsValid(b) ==
    /\ b.numToRenderAhead < b.maxNumToRender
    /\ b.numToRenderBehind < b.maxNumToRender

\* C17: a list view configured with numToRenderAhead >= maxNumToRender or
\* numToRenderBehind >= maxNumToRender fails at setup and never computes a
\* window; and every recompute that runs the step runs it with numToRenderAhead
\* < maxNumToRender and numToRenderBehind < maxNumToRender, also after the
\* budgets of a mounted list view were changed.
C17_BudgetsCheckedBeforeEveryRecompute ==
    /\ call.op = "constructor" => (call.ok <=> BudgetsValid(call.budgets))
    /\ (call.op = "constructor" /\ ~call.ok) => ~mounted
    /\ (call.op = "recompute" /\ call.ran) => BudgetsValid(call.budgets)

(***************************************************************************)
(* Properties of the jump state machine (SpecJump).                        *)
(***************************************************************************)
\* Every frame and timer of the requested jumps has run.
JumpsDone == jump = "none" /\ ~isScrollingToSection

\* The state a single scrollToSection(sectionId) ends in: the main window is
\* the jump window of the section, the buffer window and the queue are empty.
EndOfOneJump(sectionId) ==
    /\ state = [firstRow |-> JumpWindowOf(HeaderRowOf(dataSource, sectionId),
                                          getRowCount(dataSource),
                                          props.initialNumToRender).firstRow,
                lastRow |-> JumpWindowOf(HeaderRowOf(dataSource, sectionId),
                                         getRowCount(dataSource),
                                         props.initialNumToRender).lastRow,
                buffer |-> NoBuffer]
    /\ nextSectionToScrollTo = NullSection

\* C14: scrollToSection(id) requested twice in succession for the same known
\* id, from idle, ends (its frames and timers run) with the same main window,
\* empty buffer window and empty queue as requesting it once.
C14_JumpIdempotent ==
    (call.op = "scrollToSection" /\ JumpsDone) => EndOfOneJump(call.sectionId)

(***************************************************************************)
(* Properties of a run of requests (SpecRequests).                         *)
(***************************************************************************)
\* C27: after any sequence of scrollToSection requests for known sections,
\* interleaved in any way with the frames and timers of the jumps, once all
\* of them have run the main window contains the first row of the section
\* requested last.
C27_LastRequestWins ==
    (call.op = "requests" /\ JumpsDone) =>
        /\ state.firstRow <= HeaderRowOf(dataSource, call.last)
        /\ HeaderRowOf(dataSource, call.last) <= state.lastRow

(***************************************************************************)
(* Properties of the order of a jump's steps (SpecOrder).                  *)
(***************************************************************************)
\* The steps of a jump in their specified order.
JumpOrder == <<"commitBuffer", "scrollTo", "replaceMain">>

\* C24: within every jump the buffer window is committed, then the viewport is
\* moved to the section's startY, then the main window is set to the buffer
\* window, after one animation frame on Android and at once on iOS: the steps
\* taken so far are the first steps of that order, the viewport is never moved
\* before the buffer commit nor after the replacement of the main window.
C24_JumpStepsInOrder ==
    call.op = "jump" =>
        /\ Len(call.steps) <= Len(JumpOrder)
        /\ call.steps = SubSeq(JumpOrder, 1, Len(call.steps))
        /\ jump = "wait" => (platform = "android" /\ Len(call.steps) = 2)
        /\ jump # "wait" => Len(call.steps) = 3

=============================================================================
